---- MODULE Spec2Model ----
(***************************************************************************)
(* Model of the course assistant's remote UI control channel (MCPClient   *)
(* in mcp_config.py), of the forum form-fill orchestrator                  *)
(* (fill_moodle_forum in course_tools.py, with the wrappers of            *)
(* mcp_tools.py and the helpers of moodle_helpers.py) and of the          *)
(* retrieval client (LightRAGClient.query in lightrag_client.py).         *)
(*                                                                         *)
(* The channel runs on a single asyncio event loop: a coroutine runs      *)
(* without interruption from one await to the next, so every action below *)
(* is the code between two suspension points.                             *)
(***************************************************************************)
EXTENDS Integers, Sequences, FiniteSets, TLC

\* ------------------------------------------------------------------ bounds

\* Number of connect, call_tool and disconnect calls made in one run; each
\* starts at most one maintaining task, so it bounds the tasks as well.
MaxCalls == 2

\* Largest connect timeout, counted in polls of the 0.1 s readiness loop.
MaxTimeout == 1

\* ------------------------------------------------------------- the channel

VARIABLES
    session,        \* MCPClient.session: 0 is None, t is the ClientSession task t made
    tools,          \* MCPClient.tools: the names advertised by the bridge
    initialized,    \* MCPClient._initialized
    cleanup_task,   \* MCPClient._cleanup_task: 0 is None, else a task
    nTasks,         \* how many maintaining tasks asyncio.create_task has made
    nCalls,         \* how many calls of the channel's operations were made
    budget,         \* how many calls this run may make (a bound, never changed)
    tasks,          \* the _maintain_connection coroutines, by task
    callers         \* the coroutines that call connect, call_tool and disconnect

chanVars == <<session, tools, initialized, cleanup_task, nTasks, nCalls, budget,
              tasks, callers>>

\* ------------------------------------------------ the form-fill orchestrator

VARIABLES
    fpc,            \* where fill_moodle_forum stands: the primitive it awaits
    fin,            \* its arguments and environment: subject, message, URLs
    fsnap,          \* its local `snapshot`: the text of the last take_snapshot
    flog,           \* the primitives it has issued, in order
    fres            \* the JSON object it returned

fillVars == <<fpc, fin, fsnap, flog, fres>>

\* --------------------------------------------------- the retrieval client

VARIABLES
    qin,            \* the arguments of the last LightRAGClient.query call
    qreq,           \* the JSON body it posted to /query
    qnet,           \* how many requests.post calls were made
    qres,           \* the dict it returned
    qtool           \* the payload the lightrag_query tool made of that dict

queryVars == <<qin, qreq, qnet, qres, qtool>>

\* ------------------------------------------------------ the pure helpers

VARIABLES
    pin,            \* the references _parse_result was given
    pout,           \* the dict it returned
    uin,            \* the URL validate_moodle_url was given
    uout,           \* what it returned
    lin,            \* the search a snapshot locator was called with
    lout            \* what it returned

parseVars == <<pin, pout>>

urlVars == <<uin, uout>>

locVars == <<lin, lout>>

vars == <<chanVars, fillVars, queryVars, parseVars, urlVars, locVars>>

Callers == {"a", "b"}

Tasks == 1..(MaxCalls + 1)

\* The six primitives the bridge advertises in list_tools (mcp_tools.py).
BridgeTools == {"mcp__chrome-devtools__navigate_page",
                "mcp__chrome-devtools__take_snapshot",
                "mcp__chrome-devtools__click",
                "mcp__chrome-devtools__fill",
                "mcp__chrome-devtools__evaluate_script",
                "mcp__chrome-devtools__wait_for"}

\* Names a caller may pass to call_tool: an advertised one and one that is not.
CallNames == {"mcp__chrome-devtools__click", "no_such_tool"}

\* connect()'s default timeout (120 s), the one call_tool's connect runs with.
DefaultTimeout == MaxTimeout

\* The awaits of _maintain_connection inside which a cancellation is delivered.
HandshakePcs == {"stdio_enter", "session_enter", "initialize", "list_tools"}

NoTask == [pc |-> "none", cancel |-> FALSE, exc |-> "none"]

IdleCaller == [op |-> "none", pc |-> "idle", timeout |-> 0, elapsed |-> 0,
               task |-> 0, attempts |-> 0, name |-> "", fwd |-> 0,
               result |-> "none", ret |-> {}, call |-> 0]

ChanStart ==
    /\ session = 0
    /\ tools = {}
    /\ initialized = FALSE
    /\ cleanup_task = 0
    /\ nTasks = 0
    /\ nCalls = 0
    /\ tasks = [t \in Tasks |-> NoTask]
    /\ callers = [c \in Callers |-> IdleCaller]

ChanInit == ChanStart /\ budget = MaxCalls

\* The same channel with one more call, for the runs that need three calls.
ChanInitDeep == ChanStart /\ budget = MaxCalls + 1

\* MCPClient.is_connected
is_connected == initialized /\ session # 0

\* Task.done()
TaskDone(t) == tasks[t].pc = "done"

\* Task.cancel(): a request, delivered at the task's next step; no-op when done.
CancelTask(tk, t) ==
    IF t # 0 /\ tk[t].pc # "done"
    THEN [tk EXCEPT ![t].cancel = TRUE]
    ELSE tk

\* ------------------------------------------------- _maintain_connection

\* The finally block of _maintain_connection, entered with exception e in
\* flight: `if self.session:` reads the shared field and awaits the __aexit__
\* of the session it finds there, then stdio_context.__aexit__.
EnterFinally(t, e) ==
    [pc |-> "cleanup", cancel |-> FALSE, exc |-> e]

\* stdio_context.__aenter__() returns: the task makes its ClientSession, stores
\* it in self.session and awaits its __aenter__.
TaskStdioEntered(t) ==
    /\ UNCHANGED <<budget, fillVars, queryVars, parseVars, urlVars, locVars>>
    /\ tasks[t].pc = "stdio_enter"
    /\ ~tasks[t].cancel
    /\ session' = t
    /\ tasks' = [tasks EXCEPT ![t] = [@ EXCEPT !.pc = "session_enter"]]
    /\ UNCHANGED <<tools, initialized, cleanup_task, nTasks, nCalls, callers>>

\* stdio_context.__aenter__() raises (the bridge process cannot be spawned):
\* the await is outside the try, so the task ends without the finally block.
TaskStdioFailed(t) ==
    /\ UNCHANGED <<budget, fillVars, queryVars, parseVars, urlVars, locVars>>
    /\ tasks[t].pc = "stdio_enter"
    /\ ~tasks[t].cancel
    /\ tasks' = [tasks EXCEPT ![t] = [@ EXCEPT !.pc = "done", !.exc = "error"]]
    /\ UNCHANGED <<session, tools, initialized, cleanup_task, nTasks, nCalls, callers>>

\* An await of the handshake returns: the next call is made on self.session as
\* it is now (None raises AttributeError into the finally block); after
\* list_tools the task publishes the tools and sets _initialized.
TaskHandshakeStep(t) ==
    /\ UNCHANGED <<budget, fillVars, queryVars, parseVars, urlVars, locVars>>
    /\ tasks[t].pc \in {"session_enter", "initialize", "list_tools"}
    /\ ~tasks[t].cancel
    /\ IF tasks[t].pc = "list_tools"
       THEN /\ tools' = BridgeTools
            /\ initialized' = TRUE
            /\ tasks' = [tasks EXCEPT ![t] = [@ EXCEPT !.pc = "waiting"]]
       ELSE /\ UNCHANGED <<tools, initialized>>
            /\ tasks' = [tasks EXCEPT ![t] =
                  IF session = 0
                  THEN EnterFinally(t, "error")
                  ELSE [@ EXCEPT !.pc = IF @ = "session_enter" THEN "initialize"
                                                                ELSE "list_tools"]]
    /\ UNCHANGED <<session, cleanup_task, nTasks, nCalls, callers>>

\* An await of the handshake raises (initialize or list_tools fails).
TaskHandshakeError(t) ==
    /\ UNCHANGED <<budget, fillVars, queryVars, parseVars, urlVars, locVars>>
    /\ tasks[t].pc \in {"session_enter", "initialize", "list_tools"}
    /\ ~tasks[t].cancel
    /\ tasks' = [tasks EXCEPT ![t] = EnterFinally(t, "error")]
    /\ UNCHANGED <<session, tools, initialized, cleanup_task, nTasks, nCalls, callers>>

\* CancelledError is thrown into the task at its current await.
TaskCancelled(t) ==
    /\ UNCHANGED <<budget, fillVars, queryVars, parseVars, urlVars, locVars>>
    /\ tasks[t].cancel
    /\ tasks[t].pc \in HandshakePcs \cup {"waiting"}
    /\ tasks' = [tasks EXCEPT ![t] =
          IF tasks[t].pc = "stdio_enter"
          THEN [pc |-> "done", cancel |-> FALSE, exc |-> "cancelled"]
          ELSE EnterFinally(t, "cancelled")]
    /\ UNCHANGED <<session, tools, initialized, cleanup_task, nTasks, nCalls, callers>>

\* The finally block ends: both __aexit__ awaits are over (whatever either
\* raises, a second cancellation included, is swallowed by the bare excepts)
\* and the exception in flight ends the task.
TaskCleanupDone(t) ==
    /\ UNCHANGED <<budget, fillVars, queryVars, parseVars, urlVars, locVars>>
    /\ tasks[t].pc = "cleanup"
    /\ tasks' = [tasks EXCEPT ![t] =
          [@ EXCEPT !.pc = "done", !.cancel = FALSE]]
    /\ UNCHANGED <<session, tools, initialized, cleanup_task, nTasks, nCalls, callers>>

\* ------------------------------------------------------------- connect

\* A caller record at the start of an operation.
Begin(op, to, nm) ==
    [op |-> op, pc |-> "idle", timeout |-> to, elapsed |-> 0, task |-> 0,
     attempts |-> 0, name |-> nm, fwd |-> 0, result |-> "none", ret |-> {},
     call |-> nCalls + 1]

\* An operation returns or raises: the caller's record when it ends (its
\* locals timeout and elapsed are gone).
Finish(r, res) ==
    [r EXCEPT !.pc = "done", !.result = res, !.timeout = 0, !.elapsed = 0]

\* A caller that is in no call makes the next one. The callers are
\* interchangeable, so the first call of a run is taken to be a's.
CanCall(c) ==
    /\ callers[c].pc \in {"idle", "done"}
    /\ nCalls < budget
    /\ nCalls = 0 => c = "a"
    /\ nCalls' = nCalls + 1

\* connect() from create_task to its first sleep: the new task is stored in
\* _cleanup_task, whatever that held; no time has passed yet, so it sleeps.
StartAttempt(c, r) ==
    /\ nTasks' = nTasks + 1
    /\ cleanup_task' = nTasks + 1
    /\ tasks' = [tasks EXCEPT ![nTasks + 1] =
          [pc |-> "stdio_enter", cancel |-> FALSE, exc |-> "none"]]
    /\ callers' = [callers EXCEPT ![c] =
          [r EXCEPT !.pc = "sleeping", !.task = nTasks + 1, !.attempts = @ + 1]]
    /\ UNCHANGED <<session, tools, initialized>>

\* call_tool without its name check: whatever name it is given is forwarded.
tool_check_any(r) ==
    IF session = 0
    THEN Finish(r, "ToolCallFailed")
    ELSE [r EXCEPT !.pc = "awaiting_tool", !.fwd = @ + 1]

\* call_tool after its connect: the name check, then session.call_tool on
\* self.session (None raises AttributeError, re-raised as a failed tool call).
tool_check(r) ==
    IF r.name \notin tools
    THEN Finish(r, "NotFound")
    ELSE IF session = 0
         THEN Finish(r, "ToolCallFailed")
         ELSE [r EXCEPT !.pc = "awaiting_tool", !.fwd = @ + 1]

\* connect() without its early return: every call starts an attempt.
ConnectCall_always(c, to) ==
    /\ UNCHANGED <<budget, fillVars, queryVars, parseVars, urlVars, locVars>>
    /\ CanCall(c)
    /\ StartAttempt(c, Begin("connect", to, ""))

\* connect(timeout) is called: returns self.tools at once when _initialized,
\* else starts an attempt and polls.
ConnectCall(c, to) ==
    /\ UNCHANGED <<budget, fillVars, queryVars, parseVars, urlVars, locVars>>
    /\ CanCall(c)
    /\ IF initialized
       THEN /\ callers' = [callers EXCEPT ![c] =
                  [Finish(Begin("connect", to, ""), "ok") EXCEPT !.ret = tools]]
            /\ UNCHANGED <<session, tools, initialized, cleanup_task, nTasks, tasks>>
       ELSE StartAttempt(c, Begin("connect", to, ""))

\* call_tool without its connect: it goes to the name check as the channel is.
CallToolCall_unconnected(c, nm) ==
    /\ UNCHANGED <<budget, fillVars, queryVars, parseVars, urlVars, locVars>>
    /\ CanCall(c)
    /\ callers' = [callers EXCEPT ![c] =
          tool_check(Begin("call_tool", DefaultTimeout, nm))]
    /\ UNCHANGED <<session, tools, initialized, cleanup_task, nTasks, tasks>>

\* call_tool(name, args) is called: connects first when not _initialized.
CallToolCall(c, nm) ==
    /\ UNCHANGED <<budget, fillVars, queryVars, parseVars, urlVars, locVars>>
    /\ CanCall(c)
    /\ IF initialized
       THEN /\ callers' = [callers EXCEPT ![c] =
                  tool_check(Begin("call_tool", DefaultTimeout, nm))]
            /\ UNCHANGED <<session, tools, initialized, cleanup_task, nTasks, tasks>>
       ELSE StartAttempt(c, Begin("call_tool", DefaultTimeout, nm))

\* connect() that answers a timeout by starting the next attempt itself.
ConnectPoll_retry(c) ==
    /\ UNCHANGED <<budget, fillVars, queryVars, parseVars, urlVars, locVars>>
    /\ callers[c].pc = "sleeping"
    /\ LET r == [callers[c] EXCEPT !.elapsed = @ + 1] IN
       IF initialized
       THEN /\ callers' = [callers EXCEPT ![c] =
                  IF r.op = "connect"
                  THEN [Finish(r, "ok") EXCEPT !.ret = tools]
                  ELSE tool_check(r)]
            /\ UNCHANGED <<session, tools, initialized, cleanup_task, nTasks, nCalls, tasks>>
       ELSE IF r.elapsed > r.timeout
            THEN /\ StartAttempt(c, [r EXCEPT !.elapsed = 0])
                 /\ UNCHANGED nCalls
            ELSE /\ callers' = [callers EXCEPT ![c] = r]
                 /\ UNCHANGED <<session, tools, initialized, cleanup_task, nTasks, nCalls,
                                tasks>>

\* connect() that watches its task: it raises as soon as the task has ended.
ConnectPoll_watch_task(c) ==
    /\ UNCHANGED <<budget, fillVars, queryVars, parseVars, urlVars, locVars>>
    /\ callers[c].pc = "sleeping"
    /\ LET r == [callers[c] EXCEPT !.elapsed = @ + 1] IN
       IF initialized
       THEN /\ callers' = [callers EXCEPT ![c] =
                  IF r.op = "connect"
                  THEN [Finish(r, "ok") EXCEPT !.ret = tools]
                  ELSE tool_check(r)]
            /\ UNCHANGED <<session, tools, initialized, cleanup_task, nTasks, nCalls, tasks>>
       ELSE IF r.elapsed > r.timeout \/ TaskDone(r.task)
            THEN /\ tasks' = CancelTask(tasks, cleanup_task)
                 /\ initialized' = FALSE
                 /\ callers' = [callers EXCEPT ![c] =
                       Finish(r, IF r.op = "connect" THEN "Timeout"
                                                     ELSE "RuntimeError")]
                 /\ UNCHANGED <<session, tools, cleanup_task, nTasks, nCalls>>
            ELSE /\ callers' = [callers EXCEPT ![c] = r]
                 /\ UNCHANGED <<session, tools, initialized, cleanup_task, nTasks, nCalls,
                                tasks>>

\* connect() wakes from asyncio.sleep(0.1): returns when _initialized; past the
\* timeout cancels whatever task _cleanup_task holds, clears _initialized and
\* raises TimeoutError (call_tool re-raises it as RuntimeError); else sleeps on.
ConnectPoll(c) ==
    /\ UNCHANGED <<budget, fillVars, queryVars, parseVars, urlVars, locVars>>
    /\ callers[c].pc = "sleeping"
    /\ LET r == [callers[c] EXCEPT !.elapsed = @ + 1] IN
       IF initialized
       THEN /\ callers' = [callers EXCEPT ![c] =
                  IF r.op = "connect"
                  THEN [Finish(r, "ok") EXCEPT !.ret = tools]
                  ELSE tool_check(r)]
            /\ UNCHANGED <<session, tools, initialized, cleanup_task, nTasks, nCalls, tasks>>
       ELSE IF r.elapsed > r.timeout
            THEN /\ tasks' = CancelTask(tasks, cleanup_task)
                 /\ initialized' = FALSE
                 /\ callers' = [callers EXCEPT ![c] =
                       Finish(r, IF r.op = "connect" THEN "Timeout"
                                                     ELSE "RuntimeError")]
                 /\ UNCHANGED <<session, tools, cleanup_task, nTasks, nCalls>>
            ELSE /\ callers' = [callers EXCEPT ![c] = r]
                 /\ UNCHANGED <<session, tools, initialized, cleanup_task, nTasks, nCalls,
                                tasks>>

\* session.call_tool returns or raises (re-raised as "MCP tool call failed").
ToolReturn(c, ok) ==
    /\ UNCHANGED <<budget, fillVars, queryVars, parseVars, urlVars, locVars>>
    /\ callers[c].pc = "awaiting_tool"
    /\ callers' = [callers EXCEPT ![c] =
          Finish(@, IF ok THEN "ok" ELSE "ToolCallFailed")]
    /\ UNCHANGED <<session, tools, initialized, cleanup_task, nTasks, nCalls, tasks>>

\* ---------------------------------------------------------- disconnect

\* The four assignments that end disconnect() (lines 245-248).
ResetChannel ==
    /\ initialized' = FALSE
    /\ session' = 0
    /\ tools' = {}
    /\ cleanup_task' = 0

\* disconnect() is called: a task in _cleanup_task that is not done is
\* cancelled and awaited; otherwise the fields are reset at once.
DisconnectCall(c) ==
    /\ UNCHANGED <<budget, fillVars, queryVars, parseVars, urlVars, locVars>>
    /\ CanCall(c)
    /\ IF cleanup_task # 0 /\ ~TaskDone(cleanup_task)
       THEN /\ tasks' = CancelTask(tasks, cleanup_task)
            /\ callers' = [callers EXCEPT ![c] =
                  [Begin("disconnect", 0, "") EXCEPT !.pc = "await_task",
                                                     !.task = cleanup_task]]
            /\ UNCHANGED <<session, tools, initialized, cleanup_task, nTasks>>
       ELSE /\ ResetChannel
            /\ callers' = [callers EXCEPT ![c] =
                  Finish(Begin("disconnect", 0, ""), "ok")]
            /\ UNCHANGED <<nTasks, tasks>>

\* `await self._cleanup_task` ends: CancelledError is the expected end and the
\* fields are reset; any other exception of the task goes to the outer
\* `except Exception`, which logs it and returns with the fields as they are.
DisconnectResume(c) ==
    /\ UNCHANGED <<budget, fillVars, queryVars, parseVars, urlVars, locVars>>
    /\ callers[c].pc = "await_task"
    /\ TaskDone(callers[c].task)
    /\ callers' = [callers EXCEPT ![c] = Finish(@, "ok")]
    /\ IF tasks[callers[c].task].exc = "cancelled"
       THEN ResetChannel /\ UNCHANGED <<nTasks, nCalls, tasks>>
       ELSE UNCHANGED <<session, tools, initialized, cleanup_task, nTasks, nCalls, tasks>>

\* ----------------------------------------------- properties of the channel

\* Caller c makes a call of operation op in this step.
Invokes(c, op) ==
    /\ nCalls' = nCalls + 1
    /\ callers'[c].call = nCalls'
    /\ callers'[c].op = op

\* Caller c's call returns or raises in this step.
Ends(c) ==
    /\ callers'[c].pc = "done"
    /\ callers[c].pc # "done" \/ callers'[c].call # callers[c].call

\* C1: two connect() calls that run at the same time while the channel is not
\* yet initialized wait for one and the same handshake attempt: the second
\* call starts no maintaining task of its own.
C1_OneAttempt ==
    \A c, d \in Callers :
        (/\ callers[c].op = "connect" /\ callers[c].pc = "sleeping"
         /\ callers[d].op = "connect" /\ callers[d].pc = "sleeping")
            => callers[c].task = callers[d].task

\* C2: when a connect(timeout) call ends with Timeout, the handshake task that
\* this call started has been cancelled (or has already ended by itself) and
\* the channel is not initialized.
C2_TimeoutCancelsOwnTask ==
    [][\A c \in Callers :
          (Ends(c) /\ callers'[c].result = "Timeout")
              => /\ \/ tasks'[callers'[c].task].cancel
                    \/ tasks'[callers'[c].task].pc \in {"cleanup", "done"}
                 /\ ~initialized']_vars

\* C3: when disconnect() returns, the session is cleared, the tool table is
\* empty and the channel is not initialized.
C3_DisconnectClears ==
    [][\A c \in Callers :
          (Ends(c) /\ callers'[c].op = "disconnect")
              => (session' = 0 /\ tools' = {} /\ ~initialized')]_vars

\* C4: call_tool called on a channel that is not initialized starts a connect
\* and waits for it before anything else; a call is forwarded to the session
\* only in a state where a handshake has set _initialized; and a call whose
\* connect failed (RuntimeError) has forwarded nothing.
C4_AutoConnect ==
    [][\A c \in Callers :
          /\ (Invokes(c, "call_tool") /\ ~initialized)
                => /\ callers'[c].pc = "sleeping"
                   /\ callers'[c].attempts = 1
                   /\ callers'[c].fwd = 0
                   /\ nTasks' = nTasks + 1
          /\ (callers'[c].pc = "awaiting_tool" /\ callers[c].pc # "awaiting_tool")
                => (initialized /\ session # 0)
          /\ callers'[c].result = "RuntimeError" => callers'[c].fwd = 0]_vars

\* C4's case: a call_tool that connected by itself and was then forwarded.
C4_Witness ==
    \E c \in Callers :
        /\ callers[c].op = "call_tool"
        /\ callers[c].attempts = 1
        /\ callers[c].pc = "awaiting_tool"

C6_NoAutoReconnect ==
    [][/\ \A c \in Callers : callers'[c].attempts <= 1
       /\ nTasks' # nTasks
             => /\ nTasks' = nTasks + 1
                /\ \E c \in Callers :
                      /\ Invokes(c, "connect") \/ Invokes(c, "call_tool")
                      /\ callers'[c].attempts = 1]_vars

\* C6's case: the only attempt failed in its handshake, the connect call timed
\* out, and no other attempt exists.
C6_Witness ==
    \E c \in Callers :
        /\ callers[c].result = "Timeout"
        /\ tasks[callers[c].task].pc = "done"
        /\ tasks[callers[c].task].exc = "error"
        /\ nTasks = 1

\* C7: connect() called on an initialized channel returns in the same step
\* with the tool table, starts no task, and leaves session, tools and every
\* other field of the channel unchanged.
C7_ConnectWhenReady ==
    [][\A c \in Callers :
          (Invokes(c, "connect") /\ initialized)
              => /\ callers'[c].pc = "done"
                 /\ callers'[c].result = "ok"
                 /\ callers'[c].ret = tools
                 /\ callers'[c].attempts = 0
                 /\ UNCHANGED <<session, tools, initialized, cleanup_task,
                                nTasks, tasks>>]_vars

\* C7's case: a connect that returned the advertised tools without an attempt.
C7_Witness ==
    \E c \in Callers :
        /\ callers[c].op = "connect"
        /\ callers[c].pc = "done"
        /\ callers[c].result = "ok"
        /\ callers[c].attempts = 0
        /\ callers[c].ret = BridgeTools
        /\ is_connected

\* C28: every call of an attempt's handshake that goes through self.session
\* (initialize after its session was entered, list_tools after initialize) and
\* the session exit of its finally block are made on the session that this
\* attempt created itself, never on the session of another attempt.
C28_OwnSessionOnly ==
    [][\A t \in Tasks :
          /\ (/\ tasks[t].pc \in {"session_enter", "initialize"}
              /\ tasks'[t].pc \in {"initialize", "list_tools"})
                => session = t
          /\ (tasks[t].pc # "cleanup" /\ tasks'[t].pc = "cleanup")
                => session \in {0, t}]_vars

\* C29: while the latest call made on the channel is a disconnect that has
\* returned, is_connected is false and no maintaining task is still running;
\* and in every state _initialized implies that session is not None.
C29_DisconnectedStaysDown ==
    /\ (\E c \in Callers : /\ callers[c].op = "disconnect"
                           /\ callers[c].pc = "done"
                           /\ callers[c].call = nCalls)
          => /\ ~is_connected
             /\ \A t \in Tasks : tasks[t].pc \in {"none", "done"}
    /\ initialized => session # 0

MaxLines == 2

\* parse_snapshot_for_input looks at the 10 lines after a label line.
LabelWindow == 10

\* A snapshot is the sequence of its lines, and a line is what the locators
\* read of it: marks, the searched texts its lower-cased text contains; uid,
\* the token of its `uid=<token>` (0: none); old, the token of a legacy
\* `uid: <token>` or `[uid: <token>]` (0: none).
Line(m, u, o) == [marks |-> m, uid |-> u, old |-> o]

\* str.lower() of the texts the orchestrator searches for.
lower(text) ==
    CASE text = "Add discussion topic" -> "add discussion topic"
      [] text = "Subject" -> "subject"
      [] OTHER -> text

\* The `name="<label>"` attribute text of method 3, for a lower-cased label.
NameAttr(label) == IF label = "subject" THEN "name=subject" ELSE "name=other"

\* The lines of the pages the forum shows: the compose button, the same words
\* on an element that is no button, the Subject label, a text box, and the
\* form's submit button.
PageLines ==
    { Line({"add discussion topic", "button"}, 1, 0),
      Line({"add discussion topic"}, 2, 0),
      Line({"subject"}, 0, 0),
      Line({"textbox"}, 4, 0),
      Line({"button", "post to forum"}, 6, 0) }

Pages == UNION { [1..n -> PageLines] : n \in 1..MaxLines }

\* What mcp_take_snapshot returns when call_tool raised: the one-line JSON
\* {"success": false, "error": ...}, which holds none of the searched texts.
ErrorSnapshot == << Line({}, 0, 0) >>

MinOf(S) == CHOOSE x \in S : \A y \in S : x <= y

\* parse_snapshot_for_text without its element-type filter.
parse_snapshot_for_text_untyped(snapshot, text, element_type) ==
    LET hit(i) == /\ lower(text) \in snapshot[i].marks
                  /\ snapshot[i].uid # 0 \/ snapshot[i].old # 0
        found == {i \in 1..Len(snapshot) : hit(i)}
        l == snapshot[MinOf(found)]
    IN  IF found = {} THEN 0
        ELSE IF l.uid # 0 THEN l.uid ELSE l.old

\* parse_snapshot_for_text that falls back on the first handle of the
\* snapshot when no line holds the text.
parse_snapshot_for_text_fallback(snapshot, text, element_type) ==
    LET hit(i) == /\ lower(text) \in snapshot[i].marks
                  /\ element_type = "" \/ lower(element_type) \in snapshot[i].marks
                  /\ snapshot[i].uid # 0 \/ snapshot[i].old # 0
        found == {i \in 1..Len(snapshot) : hit(i)}
        any == {i \in 1..Len(snapshot) : snapshot[i].uid # 0}
        l == snapshot[MinOf(found)]
    IN  IF found = {}
        THEN IF any = {} THEN 0 ELSE snapshot[MinOf(any)].uid
        ELSE IF l.uid # 0 THEN l.uid ELSE l.old

\* parse_snapshot_for_text: the handle of the first line that contains the
\* text (case-insensitively), contains the element type when one is given
\* ("" is None) and holds a uid in the primary or, failing that, the legacy
\* form; 0 is None.
parse_snapshot_for_text(snapshot, text, element_type) ==
    LET hit(i) == /\ lower(text) \in snapshot[i].marks
                  /\ element_type = "" \/ lower(element_type) \in snapshot[i].marks
                  /\ snapshot[i].uid # 0 \/ snapshot[i].old # 0
        found == {i \in 1..Len(snapshot) : hit(i)}
        l == snapshot[MinOf(found)]
    IN  IF found = {} THEN 0
        ELSE IF l.uid # 0 THEN l.uid ELSE l.old

InputLike(l) == "textbox" \in l.marks \/ "entry" \in l.marks

\* Method 1 of parse_snapshot_for_input at label line i: the line itself when
\* it is input-like and holds a uid, else the first input-like line with a
\* uid among the next LabelWindow lines; 0 when there is none.
LabelHit(snapshot, i) ==
    LET after == {j \in (i + 1)..Len(snapshot) :
                     /\ j <= i + LabelWindow
                     /\ InputLike(snapshot[j])
                     /\ snapshot[j].uid # 0}
    IN  IF InputLike(snapshot[i]) /\ snapshot[i].uid # 0 THEN snapshot[i].uid
        ELSE IF after = {} THEN 0
        ELSE snapshot[MinOf(after)].uid

\* parse_snapshot_for_input whose method 2 takes any text box with a handle.
parse_snapshot_for_input_any_textbox(snapshot, label) ==
    LET lab == lower(label)
        m1 == {i \in 1..Len(snapshot) :
                  lab \in snapshot[i].marks /\ LabelHit(snapshot, i) # 0}
        m2 == {i \in 1..Len(snapshot) :
                  "textbox" \in snapshot[i].marks /\ snapshot[i].uid # 0}
        m3 == {i \in 1..Len(snapshot) :
                  NameAttr(lab) \in snapshot[i].marks /\ snapshot[i].uid # 0}
    IN  IF m1 # {} THEN LabelHit(snapshot, MinOf(m1))
        ELSE IF m2 # {} THEN snapshot[MinOf(m2)].uid
        ELSE IF m3 # {} THEN snapshot[MinOf(m3)].uid
        ELSE 0

\* parse_snapshot_for_input that tries the name attribute first.
parse_snapshot_for_input_name_first(snapshot, label) ==
    LET lab == lower(label)
        m1 == {i \in 1..Len(snapshot) :
                  lab \in snapshot[i].marks /\ LabelHit(snapshot, i) # 0}
        m2 == {i \in 1..Len(snapshot) :
                  /\ "textbox" \in snapshot[i].marks
                  /\ lab \in snapshot[i].marks
                  /\ snapshot[i].uid # 0}
        m3 == {i \in 1..Len(snapshot) :
                  NameAttr(lab) \in snapshot[i].marks /\ snapshot[i].uid # 0}
    IN  IF m3 # {} THEN snapshot[MinOf(m3)].uid
        ELSE IF m1 # {} THEN LabelHit(snapshot, MinOf(m1))
        ELSE IF m2 # {} THEN snapshot[MinOf(m2)].uid
        ELSE 0

\* parse_snapshot_for_input (input_type None): method 1 over the label lines
\* in order, then a textbox line that contains the label, then a line with
\* the name attribute; 0 is None.
parse_snapshot_for_input(snapshot, label) ==
    LET lab == lower(label)
        m1 == {i \in 1..Len(snapshot) :
                  lab \in snapshot[i].marks /\ LabelHit(snapshot, i) # 0}
        m2 == {i \in 1..Len(snapshot) :
                  /\ "textbox" \in snapshot[i].marks
                  /\ lab \in snapshot[i].marks
                  /\ snapshot[i].uid # 0}
        m3 == {i \in 1..Len(snapshot) :
                  NameAttr(lab) \in snapshot[i].marks /\ snapshot[i].uid # 0}
    IN  IF m1 # {} THEN LabelHit(snapshot, MinOf(m1))
        ELSE IF m2 # {} THEN snapshot[MinOf(m2)].uid
        ELSE IF m3 # {} THEN snapshot[MinOf(m3)].uid
        ELSE 0

\* ------------------------------------------- one call of a snapshot locator

\* Longest run of lines before the gap of a searched snapshot.
MaxHead == 2

\* The lines a searched snapshot is made of: the label alone, without and with
\* a handle; the label on a text box and on an entry; a text box and an entry
\* of their own; a text box whose handle is in the legacy form only; the
\* name="subject" attribute (a line that holds it holds the label too); the
\* compose button with a handle, with a legacy handle and with none; and a
\* line that holds none of the searched texts.
SearchLines ==
    { Line({"subject"}, 0, 0),
      Line({"subject"}, 3, 0),
      Line({"subject", "textbox"}, 5, 0),
      Line({"subject", "entry"}, 6, 0),
      Line({"textbox"}, 4, 0),
      Line({"entry"}, 7, 0),
      Line({"textbox"}, 0, 8),
      Line({"subject", "name=subject"}, 9, 0),
      Line({"add discussion topic", "button"}, 1, 0),
      Line({"add discussion topic"}, 0, 2),
      Line({"add discussion topic", "button"}, 0, 0),
      Line({}, 0, 0) }

\* The lines that end a searched snapshot, after the gap.
TailLines ==
    { Line({"textbox"}, 4, 0),
      Line({"subject", "name=subject"}, 9, 0) }

\* n lines that hold nothing the locators look for.
Filler(n) == [k \in 1..n |-> Line({}, 0, 0)]

\* The searched snapshots: up to MaxHead lines, then a gap of no line, of one
\* line less than the window of method 1 or of the whole window, then at
\* most one line.
Snapshots ==
    { h \o Filler(g) \o t :
        h \in UNION { [1..n -> SearchLines] : n \in 0..MaxHead },
        g \in {0, LabelWindow - 1, LabelWindow},
        t \in {<< >>} \cup { <<l>> : l \in TailLines } }

\* The except clause of both locators (lines 75-77 and 163-165): whatever was
\* raised, None is returned.
locator_except == 0

NoSearch == [op |-> "none", str |-> TRUE, snapshot |-> << >>, text |-> "",
             element_type |-> ""]

NoHandle == [returned |-> FALSE, raised |-> FALSE, uid |-> 0]

LocateInit == lin = NoSearch /\ lout = NoHandle

\* parse_snapshot_for_text(snapshot, "Add discussion topic", element_type) is
\* called; a snapshot that is no str makes snapshot.split raise inside the try.
FindByText(isstr, snapshot, element_type) ==
    /\ UNCHANGED <<chanVars, fillVars, queryVars, parseVars, urlVars>>
    /\ lin' = [op |-> "text", str |-> isstr, snapshot |-> snapshot,
               text |-> "Add discussion topic", element_type |-> element_type]
    /\ lout' = [returned |-> TRUE, raised |-> FALSE,
                uid |-> IF isstr
                        THEN parse_snapshot_for_text(snapshot,
                                 "Add discussion topic", element_type)
                        ELSE locator_except]

\* parse_snapshot_for_input(snapshot, "Subject") is called.
FindByLabel(isstr, snapshot) ==
    /\ UNCHANGED <<chanVars, fillVars, queryVars, parseVars, urlVars>>
    /\ lin' = [op |-> "label", str |-> isstr, snapshot |-> snapshot,
               text |-> "Subject", element_type |-> ""]
    /\ lout' = [returned |-> TRUE, raised |-> FALSE,
                uid |-> IF isstr
                        THEN parse_snapshot_for_input(snapshot, "Subject")
                        ELSE locator_except]

LocateNext ==
    \/ /\ lin = NoSearch
       /\ \E isstr \in BOOLEAN :
             \E s \in IF isstr THEN Snapshots ELSE {<< >>}, e \in {"", "button"} :
                FindByText(isstr, s, e)
    \/ /\ lin = NoSearch
       /\ \E isstr \in BOOLEAN :
             \E s \in IF isstr THEN Snapshots ELSE {<< >>} :
                FindByLabel(isstr, s)

\* ------------------------------------------ properties of the locators

\* Line k of the searched snapshot holds the searched text and, when an
\* element type is given, the type.
TextLine(k) ==
    /\ lower(lin.text) \in lin.snapshot[k].marks
    /\ lin.element_type = "" \/ lower(lin.element_type) \in lin.snapshot[k].marks

\* Line k of the searched snapshot holds the label.
LabelLine(k) == lower(lin.text) \in lin.snapshot[k].marks

\* Line k is one the label search can take a handle from: input-like and at
\* most LabelWindow lines after a label line (or that line itself), or a line
\* with the name attribute.
Candidate(k) ==
    \/ /\ InputLike(lin.snapshot[k])
       /\ \E i \in 1..k : LabelLine(i) /\ k <= i + LabelWindow
    \/ NameAttr(lower(lin.text)) \in lin.snapshot[k].marks

\* C22: a locator call always returns and never raises; it returns None when
\* the snapshot is no text; the text search returns None when no line holds
\* the text (and the element type) or when none of those lines holds a handle
\* in either form; the label search returns None when no line holds the label
\* or when none of the lines it can take a handle from holds a uid= handle.
C22_NullWhenNoMatch ==
    lout.returned =>
        LET N == Len(lin.snapshot) IN
        /\ ~lout.raised
        /\ ~lin.str => lout.uid = 0
        /\ lin.op = "text" =>
              /\ (\A k \in 1..N : ~TextLine(k)) => lout.uid = 0
              /\ (\A k \in 1..N : TextLine(k) =>
                     (lin.snapshot[k].uid = 0 /\ lin.snapshot[k].old = 0))
                    => lout.uid = 0
        /\ lin.op = "label" =>
              /\ (\A k \in 1..N : ~LabelLine(k)) => lout.uid = 0
              /\ (\A k \in 1..N : Candidate(k) => lin.snapshot[k].uid = 0)
                    => lout.uid = 0

\* C22's case: the label search returned None on a snapshot that holds the
\* label and, more than LabelWindow lines after it, a text box with a handle.
C22_Witness ==
    /\ lout.returned
    /\ lin.op = "label"
    /\ lout.uid = 0
    /\ \E i \in 1..Len(lin.snapshot) : LabelLine(i)
    /\ \E k \in 1..Len(lin.snapshot) :
          InputLike(lin.snapshot[k]) /\ lin.snapshot[k].uid # 0

\* C27, as stated: the label search returns the handle of the first of three
\* strategies that finds one: (1) for a line that holds the label, the first
\* input-like line with a handle among the LabelWindow lines that follow it;
\* (2) the first input-like line that holds the label and a handle; (3) the
\* first line with the name attribute and a handle; None when all three fail.
C27_ThreeStrategies ==
    (lout.returned /\ lin.op = "label" /\ lin.str) =>
        LET s == lin.snapshot
            N == Len(s)
            After(i) == {j \in (i + 1)..N : /\ j <= i + LabelWindow
                                            /\ InputLike(s[j])
                                            /\ s[j].uid # 0}
            S1 == {i \in 1..N : LabelLine(i) /\ After(i) # {}}
            S2 == {k \in 1..N : InputLike(s[k]) /\ LabelLine(k) /\ s[k].uid # 0}
            S3 == {k \in 1..N : /\ NameAttr(lower(lin.text)) \in s[k].marks
                                /\ s[k].uid # 0}
        IN  lout.uid = IF S1 # {} THEN s[MinOf(After(MinOf(S1)))].uid
                       ELSE IF S2 # {} THEN s[MinOf(S2)].uid
                       ELSE IF S3 # {} THEN s[MinOf(S3)].uid
                       ELSE 0

\* C27, amended: strategy (1) takes, for the first line that holds the label
\* and yields a handle, that line's own handle when the line is input-like,
\* and otherwise the handle of the first input-like line among the LabelWindow
\* lines that follow it; the handle of strategy (2) is returned only when (1)
\* found none, that of strategy (3) only when (1) and (2) found none, and
\* None only when all three found none.
C27_StrategiesInOrder ==
    (lout.returned /\ lin.op = "label" /\ lin.str) =>
        LET s == lin.snapshot
            N == Len(s)
            Own(i) == InputLike(s[i]) /\ s[i].uid # 0
            Next10(i, j) == /\ i < j
                            /\ j <= i + LabelWindow
                            /\ InputLike(s[j])
                            /\ s[j].uid # 0
            One(i) == LabelLine(i) /\ (Own(i) \/ \E j \in 1..N : Next10(i, j))
            Two(k) == InputLike(s[k]) /\ LabelLine(k) /\ s[k].uid # 0
            Three(k) == NameAttr(lower(lin.text)) \in s[k].marks /\ s[k].uid # 0
            First(P(_), k) == P(k) /\ \A h \in 1..(k - 1) : ~P(h)
        IN  /\ \A i \in 1..N : First(One, i) =>
                  IF Own(i) THEN lout.uid = s[i].uid
                  ELSE \E j \in 1..N : /\ Next10(i, j)
                                       /\ \A h \in 1..(j - 1) : ~Next10(i, h)
                                       /\ lout.uid = s[j].uid
            /\ (\A i \in 1..N : ~One(i)) =>
                  /\ \A k \in 1..N : First(Two, k) => lout.uid = s[k].uid
                  /\ (\A k \in 1..N : ~Two(k)) =>
                        /\ \A k \in 1..N : First(Three, k) => lout.uid = s[k].uid
                        /\ (\A k \in 1..N : ~Three(k)) => lout.uid = 0

\* C27's case: the first label line is itself a text box with a handle, an
\* input-like line with another handle follows it, and the label line's own
\* handle was returned.
C27_Witness ==
    /\ lout.returned
    /\ lin.op = "label"
    /\ \E i \in 1..Len(lin.snapshot) :
          /\ LabelLine(i)
          /\ \A h \in 1..(i - 1) : ~LabelLine(h)
          /\ InputLike(lin.snapshot[i])
          /\ lout.uid = lin.snapshot[i].uid
          /\ \E j \in (i + 1)..Len(lin.snapshot) :
                /\ j <= i + LabelWindow
                /\ InputLike(lin.snapshot[j])
                /\ lin.snapshot[j].uid \notin {0, lout.uid}

\* ------------------------------------------------------------- strings
\* A string is the sequence of its characters.

ascii_uppercase ==
    << "A", "B", "C", "D", "E", "F", "G", "H", "I", "J", "K", "L", "M",
       "N", "O", "P", "Q", "R", "S", "T", "U", "V", "W", "X", "Y",
       "Z" >>

ascii_lowercase ==
    << "a", "b", "c", "d", "e", "f", "g", "h", "i", "j", "k", "l", "m",
       "n", "o", "p", "q", "r", "s", "t", "u", "v", "w", "x", "y",
       "z" >>

\* The lower-case letter of each upper-case one.
to_lower ==
    [c \in {ascii_uppercase[k] : k \in 1..26} |->
        ascii_lowercase[CHOOSE k \in 1..26 : ascii_uppercase[k] = c]]

\* str.lower() of one character, which is also how re.IGNORECASE compares
\* the characters of the patterns below.
casefold(c) == IF c \in DOMAIN to_lower THEN to_lower[c] ELSE c

\* str.lower()
str_lower(s) == [i \in 1..Len(s) |-> casefold(s[i])]

\* str.startswith(prefix)
startswith(s, prefix) ==
    /\ Len(prefix) <= Len(s)
    /\ SubSeq(s, 1, Len(prefix)) = prefix

\* sub in s
contains(s, sub) ==
    \E i \in 1..(Len(s) - Len(sub) + 1) : SubSeq(s, i, i + Len(sub) - 1) = sub

\* ------------------------------------------------------ fill_moodle_forum

\* The pieces of a forum URL: scheme, host, path.
S_https == << "h", "t", "t", "p", "s", ":", "/", "/" >>
S_http == << "h", "t", "t", "p", ":", "/", "/" >>
S_moodle == << "m", "o", "o", "d", "l", "e" >>
S_mod_forum == << "/", "m", "o", "d", "/", "f", "o", "r", "u", "m", "/" >>
S_forum == << "/", "f", "o", "r", "u", "m", "/" >>
MoodleHost == << "m", "o", "o", "d", "l", "e", ".", "e", "x", "a", "m", "p", "l",
       "e", ".", "e", "d", "u" >>
OtherHost == << "l", "m", "s", ".", "e", "x", "a", "m", "p", "l", "e", ".", "e",
       "d", "u" >>
ForumPage ==
    << "/", "m", "o", "d", "/", "f", "o", "r", "u", "m", "/", "v", "i",
       "e", "w", ".", "p", "h", "p", "?", "i", "d", "=", "1", "2",
       "3" >>
CoursePage ==
    << "/", "c", "o", "u", "r", "s", "e", "/", "v", "i", "e", "w", ".",
       "p", "h", "p", "?", "i", "d", "=", "1", "2", "3" >>

\* The URLs a caller passes: each of the three marks present or absent.
Urls == { scheme \o host \o page : scheme \in {S_https, S_http},
                                    host \in {MoodleHost, OtherHost},
                                    page \in {ForumPage, CoursePage} }

EmptyUrl == << >>

\* https://moodle.example.edu/mod/forum/view.php?id=123
GoodUrl == S_https \o MoodleHost \o ForumPage

\* A configured default that is no forum URL: it does not start with https://.
BadUrl == S_http \o MoodleHost \o ForumPage

\* A shape check that lets every URL through.
validate_any_url(url) == TRUE

\* A shape check without the test of the scheme.
validate_any_scheme(url) ==
    /\ url # << >>
    /\ contains(str_lower(url), S_moodle)
    /\ contains(url, S_mod_forum) \/ contains(url, S_forum)

\* validate_moodle_url: not empty, contains "moodle" in any case, starts
\* with https://, contains /mod/forum/ or /forum/.
validate_moodle_url(url) ==
    IF url = << >> THEN FALSE
    ELSE IF ~contains(str_lower(url), S_moodle) THEN FALSE
    ELSE IF ~startswith(url, S_https) THEN FALSE
    ELSE IF ~contains(url, S_mod_forum) /\ ~contains(url, S_forum) THEN FALSE
    ELSE TRUE

\* How many pieces a URL under validation is made of.
MaxUrlParts == 4

UrlParts ==
    { S_https, S_http,
      << "H", "T", "T", "P", "S", ":", "/", "/" >>,
      MoodleHost,
      << "M", "o", "o", "d", "l", "e", ".", "E", "x", "a", "m", "p", "l",
         "e", ".", "e", "d", "u" >>,
      OtherHost,
      S_mod_forum, S_forum,
      << "v", "i", "e", "w", ".", "p", "h", "p", "?", "i", "d", "=", "1",
         "2", "3" >> }

RECURSIVE Join(_)
Join(parts) == IF parts = << >> THEN << >> ELSE Head(parts) \o Join(Tail(parts))

UrlTexts == { Join(ps) : ps \in UNION { [1..n -> UrlParts] : n \in 0..MaxUrlParts } }

NoVerdict == [returned |-> FALSE, valid |-> FALSE]

UrlInit ==
    /\ uin = << >>
    /\ uout = NoVerdict

\* validate_moodle_url is called on a URL.
ValidateCall(url) ==
    /\ uin' = url
    /\ uout' = [returned |-> TRUE, valid |-> validate_moodle_url(url)]
    /\ UNCHANGED <<chanVars, fillVars, queryVars, parseVars, locVars>>

UrlNext ==
    /\ ~uout.returned
    /\ \E url \in UrlTexts : ValidateCall(url)

\* A message is the sequence of its lines, each with its number of characters.
MsgHeading ==
    << [kind |-> "h2", text |-> "Understanding RAG", chars |-> 20],
       [kind |-> "text", text |-> "body text", chars |-> 9] >>

MsgPlain == << [kind |-> "text", text |-> "body text", chars |-> 9] >>

\* The posts the agent asks to publish: a subject and a Markdown message.
Posts ==
    { [subject |-> "write a post about RAG", message |-> MsgHeading],
      [subject |-> "Understanding RAG", message |-> MsgPlain] }

\* len() of a message: its lines and the newlines between them.
RECURSIVE py_len(_)
py_len(message) ==
    IF message = << >> THEN 0
    ELSE IF Len(message) = 1 THEN message[1].chars
    ELSE message[1].chars + 1 + py_len(Tail(message))

\* Calling the async def markdown_to_moodle_html without await runs nothing
\* of it and yields a coroutine object.
Coroutine(fn, arg) == [kind |-> "coroutine", fn |-> fn, arg |-> arg]

\* json.dumps(value): a coroutine object is not JSON serializable.
json_dumps(value) ==
    IF value.kind = "coroutine" THEN "TypeError" ELSE "ok"

\* fres before fill_moodle_forum has returned: returned says whether it did.
NoResult == [returned |-> FALSE, success |-> FALSE, error |-> "none",
             subject |-> "none", message_length |-> -1,
             message_html_length |-> -1]

\* The JSON objects fill_moodle_forum returns for a failure it detects.
Failure(error) == [NoResult EXCEPT !.returned = TRUE, !.error = error]

\* A handler that lets the exception go on to the caller: no object is returned.
fill_reraise(e) == [NoResult EXCEPT !.error = e]

\* The `except Exception` handler of fill_moodle_forum (lines 504-517):
\* the exception becomes a failure object carrying str(e).
fill_except(e) == Failure(e)

NoInput == [subject |-> "", message |-> << >>, forum_url |-> EmptyUrl,
            env_url |-> EmptyUrl, available |-> FALSE]

FillInit ==
    /\ fpc = "idle"
    /\ fin = NoInput
    /\ fsnap = << >>
    /\ flog = << >>
    /\ fres = NoResult

\* The wrapper awaited returns: call_tool's result on success; on any
\* exception of call_tool the wrapper returns an error JSON string instead of
\* raising.
Returned(ok) ==
    [flog EXCEPT ![Len(flog)].ok = IF ok THEN "ok" ELSE "failed"]

\* fill_moodle_forum is called: the checks before the try block, then step 1.
FillCall(post, url, env, available) ==
    /\ UNCHANGED <<chanVars, queryVars, parseVars, urlVars, locVars>>
    /\ fpc = "idle"
    /\ fin' = [subject |-> post.subject, message |-> post.message,
               forum_url |-> url, env_url |-> env, available |-> available]
    /\ fsnap' = fsnap
    /\ LET forum_url == IF url # << >> THEN url ELSE env
           return(res) == fpc' = "done" /\ fres' = res /\ flog' = flog
       IN
       IF ~available
       THEN return(Failure("MCP tools not available"))
       ELSE IF forum_url = << >>
       THEN return(Failure("MOODLE_FORUM_URL not configured"))
       ELSE IF ~validate_moodle_url(forum_url)
       THEN return(Failure("Invalid Moodle URL"))
       ELSE /\ flog' = << [tool |-> "navigate_page", uid |-> 0, text |-> "",
                            ok |-> "pending"] >>
            /\ fpc' = "navigate"
            /\ fres' = fres

\* A run that fills the subject through the handle of the compose button,
\* which it read from the snapshot before the click.
FillContinue_button_uid(log, ok, page) ==
    LET issue(tool, uid, text, pc) ==
            /\ flog' = Append(log, [tool |-> tool, uid |-> uid, text |-> text,
                                    ok |-> "pending"])
            /\ fpc' = pc
            /\ fres' = fres
        return(res) == fpc' = "done" /\ fres' = res /\ flog' = log
        snapshot == IF ok THEN page ELSE ErrorSnapshot
        button_uid == parse_snapshot_for_text(snapshot, "Add discussion topic",
                                              "button")
        subject_uid == parse_snapshot_for_input(snapshot, "Subject")
        message_html == Coroutine("markdown_to_moodle_html", fin.message)
    IN
    CASE fpc = "navigate" ->
           /\ issue("wait_for", 0, "Add discussion topic", "wait1")
           /\ fsnap' = fsnap
      [] fpc = "wait1" ->
           /\ issue("take_snapshot", 0, "", "snapshot1")
           /\ fsnap' = fsnap
      [] fpc = "snapshot1" ->
           /\ fsnap' = snapshot
           /\ IF button_uid = 0
              THEN return(Failure("Could not find 'Add discussion topic' button"))
              ELSE issue("click", button_uid, "", "click")
      [] fpc = "click" ->
           /\ issue("wait_for", 0, "Subject", "wait2")
           /\ fsnap' = fsnap
      [] fpc = "wait2" ->
           /\ issue("take_snapshot", 0, "", "snapshot2")
           /\ fsnap' = fsnap
      [] fpc = "snapshot2" ->
           /\ fsnap' = snapshot
           /\ IF subject_uid = 0
              THEN return(Failure("Could not find Subject input field"))
              ELSE issue("fill",
                         parse_snapshot_for_text(fsnap, "Add discussion topic",
                                                 "button"),
                         fin.subject, "fill")
      [] fpc = "fill" ->
           /\ fsnap' = fsnap
           /\ IF json_dumps(message_html) = "TypeError"
              THEN return(fill_except("Object of type coroutine is not JSON serializable"))
              ELSE issue("evaluate_script", 0, "set editor content", "script")
      [] fpc = "script" ->
           /\ fsnap' = fsnap
           /\ IF message_html.kind = "coroutine"
              THEN return(fill_except("object of type 'coroutine' has no len()"))
              ELSE return([returned |-> TRUE, success |-> TRUE, error |-> "none",
                           subject |-> fin.subject,
                           message_length |-> py_len(fin.message),
                           message_html_length |-> message_html.len])

\* The code of fill_moodle_forum from the return of the awaited wrapper to
\* the next await or return; log is flog with the wrapper's outcome noted.
FillContinue(log, ok, page) ==
    LET issue(tool, uid, text, pc) ==
            /\ flog' = Append(log, [tool |-> tool, uid |-> uid, text |-> text,
                                    ok |-> "pending"])
            /\ fpc' = pc
            /\ fres' = fres
        return(res) == fpc' = "done" /\ fres' = res /\ flog' = log
        snapshot == IF ok THEN page ELSE ErrorSnapshot
        button_uid == parse_snapshot_for_text(snapshot, "Add discussion topic",
                                              "button")
        subject_uid == parse_snapshot_for_input(snapshot, "Subject")
        message_html == Coroutine("markdown_to_moodle_html", fin.message)
    IN
    CASE fpc = "navigate" ->
           /\ issue("wait_for", 0, "Add discussion topic", "wait1")
           /\ fsnap' = fsnap
      [] fpc = "wait1" ->
           /\ issue("take_snapshot", 0, "", "snapshot1")
           /\ fsnap' = fsnap
      [] fpc = "snapshot1" ->
           /\ fsnap' = snapshot
           /\ IF button_uid = 0
              THEN return(Failure("Could not find 'Add discussion topic' button"))
              ELSE issue("click", button_uid, "", "click")
      [] fpc = "click" ->
           /\ issue("wait_for", 0, "Subject", "wait2")
           /\ fsnap' = fsnap
      [] fpc = "wait2" ->
           /\ issue("take_snapshot", 0, "", "snapshot2")
           /\ fsnap' = fsnap
      [] fpc = "snapshot2" ->
           /\ fsnap' = snapshot
           /\ IF subject_uid = 0
              THEN return(Failure("Could not find Subject input field"))
              ELSE issue("fill", subject_uid, fin.subject, "fill")
      [] fpc = "fill" ->
           /\ fsnap' = fsnap
           /\ IF json_dumps(message_html) = "TypeError"
              THEN return(fill_except("Object of type coroutine is not JSON serializable"))
              ELSE issue("evaluate_script", 0, "set editor content", "script")
      [] fpc = "script" ->
           /\ fsnap' = fsnap
           /\ IF message_html.kind = "coroutine"
              THEN return(fill_except("object of type 'coroutine' has no len()"))
              ELSE return([returned |-> TRUE, success |-> TRUE, error |-> "none",
                           subject |-> fin.subject,
                           message_length |-> py_len(fin.message),
                           message_html_length |-> message_html.len])

SnapshotPcs == {"snapshot1", "snapshot2"}

\* An awaited mcp_navigate_page, mcp_wait_for_text, mcp_click_element,
\* mcp_fill_form or mcp_evaluate_script returns and fill_moodle_forum runs
\* on; ok says whether call_tool returned or raised.
WrapperReturn(ok) ==
    /\ UNCHANGED <<chanVars, queryVars, parseVars, urlVars, locVars>>
    /\ fpc \notin {"idle", "done"} \cup SnapshotPcs
    /\ fin' = fin
    /\ FillContinue(Returned(ok), ok, ErrorSnapshot)

\* The awaited mcp_take_snapshot returns: the text of some page, or the
\* error JSON when call_tool raised.
SnapshotReturn(ok, page) ==
    /\ UNCHANGED <<chanVars, queryVars, parseVars, urlVars, locVars>>
    /\ fpc \in SnapshotPcs
    /\ fin' = fin
    /\ FillContinue(Returned(ok), ok, page)

FillNext ==
    \/ \E post \in Posts, url \in Urls \cup {EmptyUrl},
          env \in {EmptyUrl, GoodUrl, BadUrl}, available \in BOOLEAN :
            FillCall(post, url, env, available)
    \/ \E ok \in BOOLEAN : WrapperReturn(ok)
    \/ \E page \in Pages : SnapshotReturn(TRUE, page)
    \/ SnapshotReturn(FALSE, ErrorSnapshot)

\* ------------------------------------------- properties of the orchestrator

\* C8: fill_moodle_forum issues only navigate_page, wait_for, take_snapshot,
\* click, fill and evaluate_script; its only click is the fourth primitive of
\* the run and goes to the handle of a snapshot line that reads
\* "add discussion topic" and "button", never to the form's submit button;
\* and the only script it runs sets the editor's content.
C8_NeverSubmits ==
    \A i \in 1..Len(flog) :
        /\ flog[i].tool \in {"navigate_page", "wait_for", "take_snapshot",
                              "click", "fill", "evaluate_script"}
        /\ flog[i].tool = "click"
              => /\ i = 4
                 /\ \E l \in PageLines :
                       /\ l.uid = flog[i].uid
                       /\ {"add discussion topic", "button"} \subseteq l.marks
                       /\ "post to forum" \notin l.marks
        /\ flog[i].tool = "evaluate_script" => flog[i].text = "set editor content"

\* C8's case: a run that clicked the compose button, filled the subject and
\* ended.
C8_Witness ==
    /\ fpc = "done"
    /\ \E i \in 1..Len(flog) : flog[i].tool = "click"
    /\ flog[Len(flog)].tool = "fill"

\* C11: a call with MCP available whose forum_url and MOODLE_FORUM_URL are
\* both empty returns the "not configured" failure, and one whose resolved
\* URL lacks "moodle", the https:// prefix or a forum path returns the
\* "Invalid Moodle URL" failure;
\* both return in the step of the call, with no primitive issued.
C11_FailsBeforeAnyPrimitive ==
    LET forum_url == IF fin.forum_url # << >> THEN fin.forum_url ELSE fin.env_url
    IN  (fpc # "idle" /\ fin.available)
           => /\ forum_url = << >>
                    => /\ fpc = "done"
                       /\ fres = Failure("MOODLE_FORUM_URL not configured")
                       /\ flog = << >>
              /\ (/\ forum_url # << >>
                  /\ ~(/\ contains(str_lower(forum_url), S_moodle)
                       /\ startswith(forum_url, S_https)
                       /\ contains(forum_url, S_forum)))
                    => /\ fpc = "done"
                       /\ fres = Failure("Invalid Moodle URL")
                       /\ flog = << >>

\* C11's case: a call whose only URL, the configured default, is malformed
\* has returned.
C11_Witness ==
    /\ fpc = "done"
    /\ fin.available
    /\ fin.forum_url = << >>
    /\ fin.env_url = BadUrl
    /\ fres = Failure("Invalid Moodle URL")

\* C9: a run with a valid URL in which the compose button and the subject
\* field were found and every primitive succeeded returns success = true with
\* the subject and the message length.
C9_SuccessWhenAllSucceed ==
    (/\ fpc = "done"
     /\ \E i \in 1..Len(flog) : flog[i].tool = "click"
     /\ \E i \in 1..Len(flog) : flog[i].tool = "fill"
     /\ \A i \in 1..Len(flog) : flog[i].ok = "ok")
        => /\ fres.success = TRUE
           /\ fres.subject = fin.subject
           /\ fres.message_length = py_len(fin.message)

\* The subjects that read as an instruction to the assistant.
DirectiveSubjects == {"write a post about RAG"}

\* C21: in a run whose subject reads as an instruction and whose message
\* begins with a Markdown heading, the subject that is filled in is the text
\* of that heading.
C21_SubjectRederived ==
    \A i \in 1..Len(flog) :
        (/\ flog[i].tool = "fill"
         /\ fin.subject \in DirectiveSubjects
         /\ fin.message[1].kind = "h2")
           => flog[i].text = fin.message[1].text

\* C23: a primitive that failed is the last one of its run: the run has
\* returned a failure and issued nothing after it.
C23_FailureStopsRun ==
    \A i \in 1..Len(flog) :
        flog[i].ok = "failed"
           => /\ i = Len(flog)
              /\ fpc = "done"
              /\ fres.returned /\ ~fres.success

\* A line of the snapshot held carries the handle uid.
Holds(uid) ==
    \E k \in 1..Len(fsnap) : uid # 0 /\ uid \in {fsnap[k].uid, fsnap[k].old}

\* A line of the snapshot held reads as the compose button and carries uid.
HoldsButton(uid) ==
    \E k \in 1..Len(fsnap) :
        /\ {"add discussion topic", "button"} \subseteq fsnap[k].marks
        /\ uid # 0 /\ uid \in {fsnap[k].uid, fsnap[k].old}

\* C24: the first primitives of a run are navigate_page, wait_for "Add
\* discussion topic", take_snapshot and then click, in that order; the click
\* carries the handle of a line of that snapshot that reads as the compose
\* button; and a run whose snapshot has no such handle returns the "could
\* not find" failure with no click, fill or script issued.
C24_OpeningOrder ==
    /\ Len(flog) >= 1 => flog[1].tool = "navigate_page"
    /\ Len(flog) >= 2 => /\ flog[2].tool = "wait_for"
                          /\ flog[2].text = "Add discussion topic"
    /\ Len(flog) >= 3 => flog[3].tool = "take_snapshot"
    /\ Len(flog) >= 4 => flog[4].tool = "click"
    /\ \A i \in 1..Len(flog) :
          flog[i].tool \in {"click", "fill", "evaluate_script"} => i >= 4
    /\ fpc = "click" => HoldsButton(flog[4].uid)
    /\ (fpc \notin {"idle", "navigate", "wait1", "snapshot1"} /\ Len(flog) = 3)
          => /\ \A k \in 1..Len(fsnap) : ~HoldsButton(fsnap[k].uid)
             /\ \A k \in 1..Len(fsnap) : ~HoldsButton(fsnap[k].old)
             /\ fpc = "done"
             /\ fres = Failure("Could not find 'Add discussion topic' button")

\* C24's case: a run whose snapshot held handles, none of them the compose
\* button's, has returned the failure after three primitives.
C24_Witness ==
    /\ fpc = "done"
    /\ Len(flog) = 3
    /\ flog[3].ok = "ok"
    /\ \E k \in 1..Len(fsnap) : Holds(fsnap[k].uid)
    /\ fres = Failure("Could not find 'Add discussion topic' button")

\* C25: a click or fill comes right after a take_snapshot that succeeded,
\* with no other primitive between them, and while it is under way its
\* handle is one of the snapshot the run holds, which is that last one.
C25_FreshHandles ==
    /\ \A i \in 1..Len(flog) :
          flog[i].tool \in {"click", "fill"}
             => /\ i > 1
                /\ flog[i - 1].tool = "take_snapshot"
                /\ flog[i - 1].ok = "ok"
    /\ fpc \in {"click", "fill"} => Holds(flog[Len(flog)].uid)

\* C25's case: the subject is being filled through a handle of the second
\* snapshot, which the snapshot before the click did not hold.
C25_Witness ==
    /\ fpc = "fill"
    /\ flog[Len(flog)].uid # flog[4].uid
    /\ Holds(flog[Len(flog)].uid)
    /\ ~Holds(flog[4].uid)

\* C26: the subject is set by a script: no fill primitive is issued.
C26_SubjectByScript ==
    \A i \in 1..Len(flog) : flog[i].tool # "fill"

\* -------------------------------------------------- LightRAGClient.query

\* Longest query text, in characters.
MaxQueryLen == 4

\* Most references in one response of the service.
MaxRefs == 2

\* query() answers a text shorter than this without a request.
MinQueryLen == 3

\* Three of the optional parameters of query(), one of each type (int, list,
\* bool); "None" is None and "[]" the empty list. The loop over
\* optional_params treats all fourteen alike.
OptionalValues ==
    [top_k : {"None", "5"},
     hl_keywords : {"None", "[]", "kw"},
     enable_rerank : {"None", "False"}]

OptionalNames == {"top_k", "hl_keywords", "enable_rerank"}

\* ------------------------------------------------- _extract_source_info

\* A string is the sequence of its characters; a character outside ASCII is
\* written by its code point ("U7B2C" is the character U+7B2C).
Digits == {"0", "1", "2", "3", "4", "5", "6", "7", "8", "9"}

\* The character classes of the patterns: \d, [\d\-], [_\s-] and
\* [U+5E74 _\s-].
InClass(c, cls) ==
    CASE cls = "digit" -> c \in Digits
      [] cls = "range" -> c \in Digits \cup {"-"}
      [] cls = "sep" -> c \in {"_", " ", "-"}
      [] cls = "sepyear" -> c \in {"U5E74", "_", " ", "-"}

\* The pieces a pattern is the concatenation of: a literal, a greedy
\* repetition cls*, an optional character c?, and a capturing group of
\* min..max characters of a class (max 0: unbounded).
Lit(s) == [k |-> "lit", s |-> s, cls |-> "", min |-> 0, max |-> 0]

Star(cls) == [k |-> "star", s |-> << >>, cls |-> cls, min |-> 0, max |-> 0]

Opt(c) == [k |-> "opt", s |-> << c >>, cls |-> "", min |-> 0, max |-> 0]

Cap(cls, min, max) == [k |-> "cap", s |-> << >>, cls |-> cls, min |-> min, max |-> max]

NoMatch == [ok |-> FALSE, caps |-> << >>]

\* The longest run of characters of class cls in s from position i.
RECURSIVE RunLen(_, _, _)
RunLen(s, i, cls) ==
    IF i <= Len(s) /\ InClass(s[i], cls) THEN 1 + RunLen(s, i + 1, cls) ELSE 0

\* s holds the literal lit at position i, compared case-insensitively.
HasLit(s, i, lit) ==
    /\ i + Len(lit) - 1 <= Len(s)
    /\ \A j \in 1..Len(lit) : casefold(s[i + j - 1]) = casefold(lit[j])

\* re.match of the pieces k.. of pattern pat on s at position i, with the
\* backtracking order of the re module: a repetition tries its longest run
\* first and gives characters back one at a time; the result holds the groups.
RECURSIVE MatchFrom(_, _, _, _)
RECURSIVE TryLen(_, _, _, _, _)
MatchFrom(pat, k, s, i) ==
    IF k > Len(pat) THEN [ok |-> TRUE, caps |-> << >>]
    ELSE LET p == pat[k] IN
         CASE p.k = "lit" ->
                IF HasLit(s, i, p.s) THEN MatchFrom(pat, k + 1, s, i + Len(p.s))
                ELSE NoMatch
           [] p.k = "opt" ->
                LET taken == IF HasLit(s, i, p.s)
                             THEN MatchFrom(pat, k + 1, s, i + 1)
                             ELSE NoMatch
                IN  IF taken.ok THEN taken ELSE MatchFrom(pat, k + 1, s, i)
           [] p.k = "star" ->
                TryLen(pat, k, s, i, RunLen(s, i, p.cls))
           [] p.k = "cap" ->
                LET run == RunLen(s, i, p.cls)
                IN  TryLen(pat, k, s, i,
                           IF p.max # 0 /\ run > p.max THEN p.max ELSE run)

\* Piece k of pat takes n characters at i if the rest then matches, else one
\* fewer, down to the piece's minimum.
TryLen(pat, k, s, i, n) ==
    IF n < pat[k].min THEN NoMatch
    ELSE LET rest == MatchFrom(pat, k + 1, s, i + n) IN
         IF rest.ok
         THEN IF pat[k].k = "cap"
              THEN [ok |-> TRUE, caps |-> << SubSeq(s, i, i + n - 1) >> \o rest.caps]
              ELSE rest
         ELSE TryLen(pat, k, s, i, n - 1)

\* re.search(pat, s, re.IGNORECASE): the match at the leftmost position that
\* has one.
RECURSIVE SearchFrom(_, _, _)
SearchFrom(pat, s, i) ==
    IF i > Len(s) + 1 THEN NoMatch
    ELSE LET m == MatchFrom(pat, 1, s, i) IN
         IF m.ok THEN m ELSE SearchFrom(pat, s, i + 1)

re_search(pat, s) == SearchFrom(pat, s, 1)

W_lecture == << "l", "e", "c", "t", "u", "r", "e" >>

W_slide == << "s", "l", "i", "d", "e" >>

W_exam == << "e", "x", "a", "m" >>

W_question == << "q", "u", "e", "s", "t", "i", "o", "n" >>

W_test == << "t", "e", "s", "t" >>

\* The five lecture patterns, in the order of the list (lines 233-244).
lecture_patterns ==
    << << Lit(W_lecture), Star("sep"), Cap("digit", 1, 0), Star("sep"),
          Lit(W_slide), Opt("s"), Star("sep"), Cap("range", 1, 0) >>,
       << Lit(<< "U7B2C" >>), Cap("digit", 1, 0), Lit(<< "U8BB2" >>), Star("sep"),
          Lit(<< "U5E7B", "U706F", "U7247" >>), Cap("range", 1, 0) >>,
       << Lit(W_slide), Opt("s"), Star("sep"), Cap("digit", 8, 8) >>,
       << Lit(W_lecture), Cap("digit", 1, 0), Star("sep"), Lit(W_slide),
          Star("sep"), Cap("range", 1, 0) >>,
       << Lit(W_lecture), Star("sep"), Cap("digit", 1, 0) >> >>

\* The four exam patterns, in the order of the list (lines 286-291).
exam_patterns ==
    << << Lit(W_exam), Star("sep"), Cap("digit", 4, 4), Star("sep"),
          Lit(<< "q" >>), Cap("digit", 1, 0) >>,
       << Cap("digit", 4, 4), Star("sepyear"), Lit(<< "U8003", "U8BD5" >>),
          Star("sep"), Opt("U7B2C"), Cap("digit", 1, 0), Opt("U9898") >>,
       << Lit(W_exam), Star("sep"), Cap("digit", 4, 4), Star("sep"),
          Lit(W_question), Star("sep"), Cap("digit", 1, 0) >>,
       << Lit(W_test), Star("sep"), Cap("digit", 4, 4), Star("sep"),
          Cap("digit", 1, 0) >> >>

\* int() of a string of decimal digits.
RECURSIVE py_int(_)
py_int(ds) ==
    IF ds = << >> THEN 0
    ELSE LET d == ds[Len(ds)]
             v == CHOOSE n \in 0..9 :
                     d = << "0", "1", "2", "3", "4", "5", "6", "7", "8", "9" >>[n + 1]
         IN  10 * py_int(SubSeq(ds, 1, Len(ds) - 1)) + v

\* str() of a natural number, as an f-string formats it.
RECURSIVE py_str(_)
py_str(n) ==
    LET d == << "0", "1", "2", "3", "4", "5", "6", "7", "8", "9" >>[(n % 10) + 1]
    IN  IF n < 10 THEN << d >> ELSE py_str(n \div 10) \o << d >>

\* file_path.split('/')[-1]: what follows the last slash.
RECURSIVE basename(_)
basename(path) ==
    IF \E i \in 1..Len(path) : path[i] = "/"
    THEN basename(SubSeq(path, (CHOOSE i \in 1..Len(path) : path[i] = "/") + 1,
                         Len(path)))
    ELSE path

\* The for loop over a pattern list, from pattern j on: the number and the
\* match of the first pattern that re.search finds in s; 0 when none does.
RECURSIVE first_match(_, _, _)
first_match(patterns, s, j) ==
    IF j > Len(patterns) THEN [j |-> 0, caps |-> << >>]
    ELSE LET match == re_search(patterns[j], s) IN
         IF match.ok THEN [j |-> j, caps |-> match.caps]
         ELSE first_match(patterns, s, j + 1)

\* The None that _extract_source_info returns.
NoSource == [type |-> "None"]

\* The dict of a match with two groups (lines 250-261): the lecture number
\* and the slide range.
lecture_slides_citation(ref, groups) ==
    [type |-> "lecture", reference_id |-> ref.reference_id,
     file_path |-> ref.file_path, lecture_id |-> py_int(groups[1]),
     slide_range |-> groups[2],
     citation |-> << "L", "e", "c", "t", "u", "r", "e", " " >>
                  \o py_str(py_int(groups[1]))
                  \o << ",", " ", "S", "l", "i", "d", "e", "s", " " >>
                  \o groups[2]]

\* A single group is always read as a lecture number.
single_group_number(ref, value) ==
    [type |-> "lecture", reference_id |-> ref.reference_id,
     file_path |-> ref.file_path, lecture_id |-> py_int(value),
     citation |-> << "L", "e", "c", "t", "u", "r", "e", " " >>
                  \o py_str(py_int(value))]

\* The dict of a match with one group (lines 262-283): a date when the group
\* has 8 characters, else a lecture number.
single_group_citation(ref, value) ==
    IF Len(value) = 8
    THEN [type |-> "lecture", reference_id |-> ref.reference_id,
          file_path |-> ref.file_path, date |-> value,
          citation |-> << "C", "o", "u", "r", "s", "e", " ",
                          "S", "l", "i", "d", "e", "s", " ", "(" >>
                       \o SubSeq(value, 1, 4) \o << "-" >>
                       \o SubSeq(value, 5, 6) \o << "-" >>
                       \o SubSeq(value, 7, Len(value)) \o << ")" >>]
    ELSE [type |-> "lecture", reference_id |-> ref.reference_id,
          file_path |-> ref.file_path, lecture_id |-> py_int(value),
          citation |-> << "L", "e", "c", "t", "u", "r", "e", " " >>
                       \o py_str(py_int(value))]

\* An exam dict whose year and question number changed places.
exam_citation_swapped(ref, groups) ==
    [type |-> "exam", reference_id |-> ref.reference_id,
     file_path |-> ref.file_path, exam_year |-> groups[2],
     question_num |-> py_int(groups[1]),
     citation |-> groups[2]
                  \o << " ", "E", "x", "a", "m", ",", " ",
                        "Q", "u", "e", "s", "t", "i", "o", "n", " " >>
                  \o py_str(py_int(groups[1]))]

\* The dict of an exam match (lines 294-305): the year as matched, the
\* question number as an integer.
exam_citation(ref, groups) ==
    [type |-> "exam", reference_id |-> ref.reference_id,
     file_path |-> ref.file_path, exam_year |-> groups[1],
     question_num |-> py_int(groups[2]),
     citation |-> groups[1]
                  \o << " ", "E", "x", "a", "m", ",", " ",
                        "Q", "u", "e", "s", "t", "i", "o", "n", " " >>
                  \o py_str(py_int(groups[2]))]

\* The generic dict (lines 307-314).
generic_citation(ref) ==
    [type |-> "document", reference_id |-> ref.reference_id,
     file_path |-> ref.file_path,
     citation |-> << "R", "e", "f", "e", "r", "e", "n", "c", "e", " ",
                     "D", "o", "c", "u", "m", "e", "n", "t", " ", "[" >>
                  \o ref.reference_id \o << "]", ":", " " >>
                  \o basename(ref.file_path)]

\* A parser that tries the exam patterns before the lecture patterns.
extract_exam_first(ref) ==
    LET file_name == basename(ref.file_path)
        lec == first_match(lecture_patterns, file_name, 1)
        exm == first_match(exam_patterns, file_name, 1)
    IN
    IF ref.file_path = << >> THEN NoSource
    ELSE IF exm.j # 0 THEN exam_citation(ref, exm.caps)
    ELSE IF lec.j # 0
    THEN IF Len(lec.caps) >= 2 THEN lecture_slides_citation(ref, lec.caps)
         ELSE single_group_citation(ref, lec.caps[1])
    ELSE generic_citation(ref)

\* _extract_source_info: None for an empty file_path; else the dict of the
\* first lecture pattern found in the file name, else of the first exam
\* pattern, else the generic one.
extract_source_info(ref) ==
    LET file_name == basename(ref.file_path)
        lec == first_match(lecture_patterns, file_name, 1)
        exm == first_match(exam_patterns, file_name, 1)
    IN
    IF ref.file_path = << >> THEN NoSource
    ELSE IF lec.j # 0
    THEN IF Len(lec.caps) >= 2 THEN lecture_slides_citation(ref, lec.caps)
         ELSE single_group_citation(ref, lec.caps[1])
    ELSE IF exm.j # 0 THEN exam_citation(ref, exm.caps)
    ELSE generic_citation(ref)

\* The references the service returns: a reference_id and a file_path.
Refs ==
    { [reference_id |-> << "1" >>,
       file_path |-> W_lecture \o << "_", "8", "_" >> \o W_slide
                     \o << "s", "_", "2", "6", "-", "2", "7", ".", "p", "d", "f" >>],
      [reference_id |-> << "2" >>, file_path |-> << >>] }

RefLists == UNION { [1..n -> Refs] : n \in 0..MaxRefs }

\* What requests.post does: an HTTP response with a status code and a body
\* (a JSON object, a JSON list, or text that is not JSON), or an exception.
Responses ==
    [kind : {"response"}, code : {200}, body : {"object"}, detail : {FALSE},
     references : RefLists]
    \cup [kind : {"response"}, code : {200}, body : {"list", "not_json"},
          detail : {FALSE}, references : {<< >>}]
    \cup [kind : {"response"}, code : {400, 422, 500, 503}, body : {"object"},
          detail : BOOLEAN, references : {<< >>}]
    \cup [kind : {"response"}, code : {400, 422, 500, 503}, body : {"not_json"},
          detail : {FALSE}, references : {<< >>}]
    \cup [kind : {"response"}, code : {404}, body : {"object"},
          detail : {FALSE}, references : {<< >>}]
    \cup [kind : {"Timeout", "ConnectionError", "OtherError"}, code : {0},
          body : {"none"}, detail : {FALSE}, references : {<< >>}]

NoQuery == [len |-> -1]

NoAnswer == [status |-> "none", error |-> "none", references |-> << >>,
             sources |-> << >>]

\* qtool before the lightrag_query tool has returned.
NoPayload == [returned |-> FALSE, error |-> "none", references |-> << >>,
              sources |-> << >>]

QueryInit ==
    /\ qin = NoQuery
    /\ qreq = [sent |-> FALSE]
    /\ qnet = 0
    /\ qres = NoAnswer
    /\ qtool = NoPayload

\* A loop that puts each citation before the ones it already has.
RECURSIVE parse_sources_reversed(_)
parse_sources_reversed(refs) ==
    IF refs = << >> THEN << >>
    ELSE LET source_info == extract_source_info(Head(refs)) IN
         IF source_info.type = "None" THEN parse_sources_reversed(Tail(refs))
         ELSE parse_sources_reversed(Tail(refs)) \o << source_info >>

\* The loop of _parse_result: the citations of the references, in order,
\* without the references that have none.
RECURSIVE parse_sources(_)
parse_sources(refs) ==
    IF refs = << >> THEN << >>
    ELSE LET source_info == extract_source_info(Head(refs)) IN
         IF source_info.type = "None" THEN parse_sources(Tail(refs))
         ELSE << source_info >> \o parse_sources(Tail(refs))

\* _parse_result
parse_result(references) ==
    [status |-> "success", error |-> "none", references |-> references,
     sources |-> parse_sources(references)]

\* ---------------------------------------------------------------------
\* File names for _extract_source_info: the shapes its patterns and its
\* comments name, cut into pieces and joined again in every order.
\* ---------------------------------------------------------------------

\* How many pieces a file path is made of.
MaxParts == 3

NameParts ==
    { W_lecture \o << "_", "8" >>,
      << "d", "o", "c", "s", "/", "L", "e", "c", "t", "u", "r", "e" >>,
      << "_" >> \o W_slide
          \o << "s", "_", "2", "6", "-", "2", "7", ".", "p", "d", "f" >>,
      << "S", "l", "i", "d", "e", "s" >>,
      << "-", "2", "0", "2", "5", "1", "0", "2", "2", ".", "p", "d", "f" >>,
      W_exam \o << "_", "2", "0", "2", "3" >>,
      << "_", "q", "5", ".", "p", "d", "f" >>,
      << "U7B2C", "0", "3", "U8BB2", "_", "U5E7B", "U706F", "U7247", "4", "-", "6" >>,
      << "_", "2", "0", "2", "3", "U5E74", "U8003", "U8BD5", "U7B2C", "7", "U9898" >> }

FilePaths == { Join(ps) : ps \in UNION { [1..n -> NameParts] : n \in 1..MaxParts } }

\* The examples of the interface description.
LectureExample == W_lecture \o << "_", "8", "_" >> \o W_slide
                  \o << "s", "_", "2", "6", "-", "2", "7", ".", "p", "d", "f" >>
ExamExample == W_exam \o << "_", "2", "0", "2", "3", "_", "q", "5", ".", "p", "d", "f" >>
DatedExample == << "S", "l", "i", "d", "e", "s", "-",
                   "2", "0", "2", "5", "1", "0", "2", "2", ".", "p", "d", "f" >>

Ref(id, path) == [reference_id |-> id, file_path |-> path]

\* A reference without a file_path.
EmptyRef == Ref(<< "0" >>, << >>)

\* The reference lists of a response: none, only references without a
\* path, or a reference of each file path followed by one without a path
\* and by another reference.
ReferenceLists ==
    { << >>, << EmptyRef >>, << EmptyRef, Ref(<< "2" >>, DatedExample) >> }
    \cup { << Ref(<< "1" >>, path), EmptyRef, Ref(<< "3" >>, ExamExample) >> :
              path \in FilePaths }

NoParse == [status |-> "none", error |-> "none", references |-> << >>,
            sources |-> << >>]

ParseInit ==
    /\ pin = << >>
    /\ pout = NoParse

\* _parse_result on the references of one response.
ParseCall(references) ==
    /\ pin' = references
    /\ pout' = parse_result(references)
    /\ UNCHANGED <<chanVars, fillVars, queryVars, urlVars, locVars>>

ParseNext ==
    /\ pout = NoParse
    /\ \E references \in ReferenceLists : ParseCall(references)


\* The dicts query() returns for a failure.
Answer(status, error) == [NoAnswer EXCEPT !.status = status, !.error = error]

\* The except clauses of query() (lines 155-172): each exception becomes a
\* dict with an error and a status.
query_except(e) ==
    CASE e = "Timeout" -> Answer("timeout", "Request timeout")
      [] e = "ConnectionError" -> Answer("connection_error", "Cannot connect")
      [] OTHER -> Answer("error", e)

\* A request body that carries every optional parameter, None included.
request_params_all(mode, include_references, optional) ==
    [required |-> [query |-> "text", mode |-> mode,
                   include_references |-> include_references],
     optional |-> {[name |-> n, value |-> optional[n]] : n \in OptionalNames}]

\* The request body: the three required fields and each optional parameter
\* that is neither None nor the empty list.
request_params(mode, include_references, optional) ==
    [required |-> [query |-> "text", mode |-> mode,
                   include_references |-> include_references],
     optional |-> {[name |-> n, value |-> optional[n]] :
                      n \in {m \in OptionalNames :
                                optional[m] # "None" /\ optional[m] # "[]"}}]

\* query() from the response of requests.post to its return.
on_response(r) ==
    IF r.code = 200
    THEN IF r.body = "not_json" THEN query_except("JSONDecodeError")
         ELSE IF r.body = "list" THEN query_except("AttributeError")
         ELSE parse_result(r.references)
    ELSE IF r.code \in {400, 422}
    THEN IF r.body = "not_json" THEN query_except("JSONDecodeError")
         ELSE Answer("bad_request", IF r.detail THEN "detail" ELSE "Bad request")
    ELSE IF r.code >= 500
    THEN IF r.body = "not_json" THEN query_except("JSONDecodeError")
         ELSE Answer("server_error",
                     IF r.detail THEN "detail" ELSE "Internal server error")
    ELSE Answer("error", "API returned status")

\* The lightrag_query tool from the return of lightrag.query to its own
\* return (lines 108-128): statuses "error" and "connection_error" become a
\* payload with an error; every other result becomes the payload with the
\* result's response, references and sources (absent ones as "" and []).
lightrag_query(result) ==
    IF result.status = "error"
    THEN [NoPayload EXCEPT !.returned = TRUE, !.error = result.error]
    ELSE IF result.status = "connection_error"
    THEN [NoPayload EXCEPT !.returned = TRUE,
                           !.error = "Cannot connect to LightRAG service"]
    ELSE [returned |-> TRUE, error |-> "none",
          references |-> result.references, sources |-> result.sources]

\* query() without its length check: every text is posted.
QueryCall_unchecked(len, mode, include_references, optional, api_key, r) ==
    /\ UNCHANGED <<chanVars, fillVars, parseVars, urlVars, locVars>>
    /\ qin' = [len |-> len, mode |-> mode,
               include_references |-> include_references,
               optional |-> optional, api_key |-> api_key]
    /\ qreq' = [sent |-> TRUE,
                json |-> request_params(mode, include_references, optional),
                params |-> IF api_key THEN {"api_key_header_value"} ELSE {}]
    /\ qnet' = qnet + 1
    /\ qres' = IF r.kind = "response" THEN on_response(r)
               ELSE query_except(r.kind)
    /\ qtool' = lightrag_query(qres')

\* The lightrag_query tool calls LightRAGClient.query, which blocks in
\* requests.post, so the whole call is one step.
QueryCall(len, mode, include_references, optional, api_key, r) ==
    /\ UNCHANGED <<chanVars, fillVars, parseVars, urlVars, locVars>>
    /\ qin' = [len |-> len, mode |-> mode,
               include_references |-> include_references,
               optional |-> optional, api_key |-> api_key]
    /\ IF len < MinQueryLen
       THEN /\ qres' = Answer("bad_request",
                              "Query text must be at least 3 characters long")
            /\ UNCHANGED <<qreq, qnet>>
       ELSE /\ qreq' = [sent |-> TRUE,
                        json |-> request_params(mode, include_references, optional),
                        params |-> IF api_key THEN {"api_key_header_value"} ELSE {}]
            /\ qnet' = qnet + 1
            /\ qres' = IF r.kind = "response" THEN on_response(r)
                       ELSE query_except(r.kind)
    /\ qtool' = lightrag_query(qres')

\* One call in a run.
QueryNext ==
    /\ qin = NoQuery
    /\ \E len \in 0..MaxQueryLen, mode \in {"mix", "naive"},
          include_references \in BOOLEAN, optional \in OptionalValues,
          api_key \in BOOLEAN, r \in Responses :
            QueryCall(len, mode, include_references, optional, api_key, r)

\* ---------------------------------------- properties of the retrieval client

\* C12: a query whose text is shorter than 3 characters returns status
\* bad_request, and no request was posted.
C12_ShortQueryNoRequest ==
    (qin # NoQuery /\ qin.len < 3)
        => /\ qres.status = "bad_request"
           /\ qres.error # "none"
           /\ qnet = 0
           /\ ~qreq.sent

\* C12's case: a query of two characters has returned.
C12_Witness ==
    /\ qin # NoQuery
    /\ qin.len = 2
    /\ qres.status = "bad_request"

\* C13: every result of query() has one of the five statuses success,
\* bad_request, server_error, timeout, connection_error.
C13_StatusTaxonomy ==
    qin # NoQuery
        => qres.status \in {"success", "bad_request", "server_error",
                            "timeout", "connection_error"}

\* C14: whenever query() returned a status other than success, the payload
\* of the lightrag_query tool carries an error.
C14_ToolReportsFailure ==
    (qtool.returned /\ qres.status # "success") => qtool.error # "none"

\* C15: the body of a posted request holds query, mode and
\* include_references as given, holds an optional parameter exactly when the
\* caller gave it a value other than None and the empty list, with that
\* value, and holds no None.
C15_RequestBody ==
    qreq.sent
        => /\ DOMAIN qreq.json.required = {"query", "mode", "include_references"}
           /\ qreq.json.required.mode = qin.mode
           /\ qreq.json.required.include_references = qin.include_references
           /\ \A f \in qreq.json.optional :
                 /\ f.name \in OptionalNames
                 /\ f.value # "None"
                 /\ f.value = qin.optional[f.name]
           /\ \A n \in OptionalNames :
                 (\E f \in qreq.json.optional : f.name = n)
                    <=> qin.optional[n] \notin {"None", "[]"}

\* C15's case: a request was posted for a call that set one optional
\* parameter, left one None and gave one the empty list.
C15_Witness ==
    /\ qreq.sent
    /\ qin.optional.top_k = "5"
    /\ qin.optional.hl_keywords = "[]"
    /\ qin.optional.enable_rerank = "None"
    /\ qreq.json.optional = {[name |-> "top_k", value |-> "5"]}

\* ------------------------------------------ properties of the citation parser

\* The references of the call that carry a file path, in response order.
WithPath == SelectSeq(pin, LAMBDA r : r.file_path # << >>)

Found(patterns, n, name) ==
    \E j \in 1..Len(patterns) :
        /\ Cardinality({k \in 1..Len(patterns[j]) : patterns[j][k].k = "cap"}) = n
        /\ re_search(patterns[j], name).ok

\* C17: the citation of a file name in which a lecture pattern with a slide
\* range is found is a lecture citation with a slide range; else, if a
\* lecture pattern with one group is found, a lecture citation without one;
\* else, if an exam pattern is found, an exam citation; and the generic
\* document citation only when no lecture and no exam pattern is found.
C17_PatternPriority ==
    pout # NoParse
       => \A k \in 1..Len(WithPath) :
             LET name == basename(WithPath[k].file_path)
                 source == pout.sources[k]
                 slides == Found(lecture_patterns, 2, name)
                 lecture == Found(lecture_patterns, 1, name)
                 exam == Found(exam_patterns, 2, name)
             IN  IF slides
                 THEN source.type = "lecture" /\ "slide_range" \in DOMAIN source
                 ELSE IF lecture
                 THEN source.type = "lecture" /\ "slide_range" \notin DOMAIN source
                 ELSE IF exam THEN source.type = "exam"
                 ELSE source.type = "document"

\* C17's case: a file name in which a lecture pattern and an exam pattern
\* are both found was given a lecture citation.
C17_Witness ==
    /\ pout # NoParse
    /\ WithPath # << >>
    /\ LET name == basename(WithPath[1].file_path)
       IN  /\ Found(lecture_patterns, 1, name)
           /\ Found(exam_patterns, 2, name)
           /\ pout.sources[1].type = "lecture"

\* C18: when the first lecture pattern found in a file name has one group,
\* a group of 8 characters gives a citation with that text as its date and
\* no lecture_id, and a group of any other length gives a citation with the
\* integer it spells as lecture_id and no date; Slides-20251022.pdf gives
\* the date "20251022".
C18_DateByLength ==
    pout # NoParse
       => \A k \in 1..Len(WithPath) :
             LET path == WithPath[k].file_path
                 source == pout.sources[k]
                 match == first_match(lecture_patterns, basename(path), 1)
             IN  /\ (match.j # 0 /\ Len(match.caps) = 1)
                       => IF Len(match.caps[1]) = 8
                          THEN /\ DOMAIN source = {"type", "reference_id",
                                                    "file_path", "date", "citation"}
                               /\ source.type = "lecture"
                               /\ source.date = match.caps[1]
                          ELSE /\ DOMAIN source = {"type", "reference_id",
                                                    "file_path", "lecture_id",
                                                    "citation"}
                               /\ source.type = "lecture"
                               /\ source.lecture_id = py_int(match.caps[1])
                 /\ path = DatedExample
                       => /\ "lecture_id" \notin DOMAIN source
                          /\ source.date = << "2", "0", "2", "5", "1", "0", "2", "2" >>

\* C18's case: Slides-20251022.pdf was given a citation with a date.
C18_Witness ==
    /\ pout # NoParse
    /\ WithPath # << >>
    /\ WithPath[1].file_path = DatedExample
    /\ pout.sources[1].type = "lecture"
    /\ "date" \in DOMAIN pout.sources[1]

C20_AcceptsForumUrls ==
    uout.returned
       => /\ uout.valid <=> /\ startswith(uin, S_https)
                            /\ \E i \in 1..Len(uin) :
                                  /\ i + 5 <= Len(uin)
                                  /\ str_lower(SubSeq(uin, i, i + 5)) = S_moodle
                            /\ contains(uin, S_forum)
          /\ uin = GoodUrl => uout.valid

\* C20's case: the forum URL of the interface description was accepted.
C20_Witness ==
    /\ uout.returned
    /\ uin = S_https \o MoodleHost \o S_mod_forum
             \o << "v", "i", "e", "w", ".", "p", "h", "p", "?", "i", "d", "=",
                   "1", "2", "3" >>
    /\ uout.valid

\* ------------------------------------------ properties of the tool surface

\* C10: every call of fill_moodle_forum that has ended returned an object
\* that says whether it succeeded, with an error when it did not; and every
\* call of LightRAGClient.query returned a dict with a status, with an error
\* whenever the status is not success. Neither ends with an exception.
C10_StructuredResults ==
    /\ fpc = "done"
          => /\ fres.returned
             /\ ~fres.success => fres.error # "none"
    /\ qin # NoQuery
          => /\ qres.status \in {"success", "bad_request", "server_error",
                                 "timeout", "connection_error", "error"}
             /\ qres.status # "success" => qres.error # "none"

\* C10's case: an exception raised inside fill_moodle_forum came back as a
\* failure object.
C10_Witness ==
    /\ fpc = "done"
    /\ flog # << >>
    /\ flog[Len(flog)].tool = "fill"
    /\ fres = Failure("Object of type coroutine is not JSON serializable")

\* ------------------------------------------------------- specification

ChanNext ==
    \/ \E c \in Callers, to \in 0..MaxTimeout : ConnectCall(c, to)
    \/ \E c \in Callers, nm \in CallNames : CallToolCall(c, nm)
    \/ \E c \in Callers : ConnectPoll(c)
    \/ \E c \in Callers, ok \in BOOLEAN : ToolReturn(c, ok)
    \/ \E c \in Callers : DisconnectCall(c)
    \/ \E c \in Callers : DisconnectResume(c)
    \/ \E t \in Tasks : TaskStdioEntered(t)
    \/ \E t \in Tasks : TaskStdioFailed(t)
    \/ \E t \in Tasks : TaskHandshakeStep(t)
    \/ \E t \in Tasks : TaskHandshakeError(t)
    \/ \E t \in Tasks : TaskCancelled(t)
    \/ \E t \in Tasks : TaskCleanupDone(t)

Init == ChanInit /\ FillInit /\ QueryInit /\ ParseInit /\ UrlInit /\ LocateInit

\* The channel under concurrent callers.
Spec == Init /\ [][ChanNext]_vars

\* The channel in a run of one more call: two callers that connect and a
\* disconnect after them.
InitDeep ==
    ChanInitDeep /\ FillInit /\ QueryInit /\ ParseInit /\ UrlInit /\ LocateInit

SpecDeep == InitDeep /\ [][ChanNext]_vars

\* One invocation of fill_moodle_forum.
SpecFill == Init /\ [][FillNext]_vars

\* One call of LightRAGClient.query.
SpecQuery == Init /\ [][QueryNext]_vars

\* One use of the tool surface: fill_moodle_forum or LightRAGClient.query.
ToolsNext ==
    \/ qin = NoQuery /\ FillNext
    \/ fpc = "idle" /\ QueryNext

SpecTools == Init /\ [][ToolsNext]_vars

\* One call of _parse_result.
SpecParse == Init /\ [][ParseNext]_vars

\* One call of validate_moodle_url.
SpecUrl == Init /\ [][UrlNext]_vars

\* One call of parse_snapshot_for_text or parse_snapshot_for_input.
SpecLocate == Init /\ [][LocateNext]_vars

====
